---- MODULE Spec2Model ----
(***************************************************************************)
(* Model of is_snyk_for.py: the hunk-header scan of PatchBlocks, its       *)
(* range_exists query, the snyk_results generator and the verification     *)
(* loop of main.                                                           *)
(*                                                                         *)
(* A text is a sequence of one-character strings; indices follow Python    *)
(* (0-based) through At and Slice.                                         *)
(***************************************************************************)
EXTENDS Integers, Sequences, FiniteSets, TLC

\* The scan of one patch text.
VARIABLES patch, pc, i, new_line, blocks, emitted, prev_i, iters

\* The verification run of main.
VARIABLES commit, report, commit_files, cur, result, examined

scanvars == <<patch, pc, i, new_line, blocks, emitted, prev_i, iters>>

mainvars == <<commit, report, commit_files, cur, result, examined>>

vars == <<scanvars, mainvars>>

(***************************************************************************)
(* Bounds of the model.                                                    *)
(***************************************************************************)
MaxSegs == 3

MaxNodes == 5

(***************************************************************************)
(* Texts.                                                                  *)
(***************************************************************************)
At(s, k) == s[k + 1]

Slice(s, a, b) == SubSeq(s, a + 1, b)

Digits == {"0", "1", "2", "3", "4", "5", "6", "7", "8", "9"}

DigitVal(c) ==
  CASE c = "0" -> 0 [] c = "1" -> 1 [] c = "2" -> 2 [] c = "3" -> 3
    [] c = "4" -> 4 [] c = "5" -> 5 [] c = "6" -> 6 [] c = "7" -> 7
    [] c = "8" -> 8 [] c = "9" -> 9

\* int(): the decimal value of a digit string, digit by digit.
RECURSIVE IntUpTo(_, _)
IntUpTo(ds, n) ==
  IF n = 0 THEN 0 ELSE IntUpTo(ds, n - 1) * 10 + DigitVal(ds[n])

int(ds) == IntUpTo(ds, Len(ds))

(***************************************************************************)
(* _MATCH_PROG = '@@ -[0-9]+,[0-9]+ \+([0-9]+),([0-9]+) @@', applied with  *)
(* match(): anchored at the start of the block, free at its end.  Each     *)
(* step takes the position the step before it reached (-1: no match) and   *)
(* binds it once, as q.                                                    *)
(***************************************************************************)
\* The position after the literal lit at position p, or -1.
Lit(s, p, lit) ==
  CHOOSE r \in { IF q >= 0 /\ q + Len(lit) <= Len(s) /\ Slice(s, q, q + Len(lit)) = lit
                 THEN q + Len(lit) ELSE -1 : q \in {p} } : TRUE

\* The position after the longest run of digits at p.  The literal after
\* each [0-9]+ of the pattern is not a digit, so the longest run is the only
\* one the pattern can use.
RECURSIVE DigitRunEnd(_, _)
DigitRunEnd(s, p) ==
  IF p < Len(s) /\ At(s, p) \in Digits THEN DigitRunEnd(s, p + 1) ELSE p

\* [0-9]+ at position p: the position after the run, or -1 when there is no
\* digit at p.
Num(s, p) ==
  CHOOSE r \in { IF q >= 0 /\ q < Len(s) /\ At(s, q) \in Digits
                 THEN DigitRunEnd(s, q) ELSE -1 : q \in {p} } : TRUE

NoMatch == [ok |-> FALSE, g1 |-> <<>>, g2 |-> <<>>]

MATCH_PROG(block) ==
  LET p1 == Lit(block, 0, <<"@", "@", " ", "-">>)
      p2 == Num(block, p1)
      p3 == Lit(block, p2, <<",">>)
      p4 == Num(block, p3)
      p5 == Lit(block, p4, <<" ", "+">>)
      p6 == Num(block, p5)
      p7 == Lit(block, p6, <<",">>)
      p8 == Num(block, p7)
      p9 == Lit(block, p8, <<" ", "@", "@">>)
  IN IF p9 = -1 THEN NoMatch
     ELSE [ok |-> TRUE, g1 |-> Slice(block, p5, p6), g2 |-> Slice(block, p7, p8)]

(***************************************************************************)
(* PatchBlocks.__init__: the body of the for loop, run for one yielded     *)
(* block.                                                                  *)
(***************************************************************************)
\* Mutant of BlockRange: the conventional span of a hunk.
BlockRange_span(g1, g2) == <<int(g1), int(g1) + int(g2) - 1>>

\* (int(m.group(1)), int(m.group(2)))
BlockRange(g1, g2) == <<int(g1), int(g2)>>

AddBlock(bs, block) ==
  CHOOSE r \in { IF m.ok THEN Append(bs, BlockRange(m.g1, m.g2)) ELSE bs :
                 m \in {MATCH_PROG(block)} } : TRUE

(***************************************************************************)
(* PatchBlocks._get_blocks: one iteration of the outer while loop.         *)
(***************************************************************************)
None == <<>>

IsOpen(p, k) == At(p, k) = "@" /\ At(p, k + 1) = "@"

\* The inner while loop: the first j >= j0 with '@@' at j, or -1 when the
\* loop runs out of text.
RECURSIVE FindClose(_, _)
FindClose(p, j) ==
  IF ~(j + 1 < Len(p)) THEN -1
  ELSE IF IsOpen(p, j) THEN j
  ELSE FindClose(p, j + 1)

Yielded(p, k, j) == [i |-> j + 2, new_line |-> FALSE, block |-> Slice(p, k, j + 2)]

\* Mutant of Unclosed: the fresh-line flag is left set when no closing
\* '@@' is found.
Unclosed_keeps_flag(p, k) == [i |-> k, new_line |-> TRUE, block |-> None]

Unclosed(p, k) == [i |-> k, new_line |-> FALSE, block |-> None]

FreshLineOther(p, k) == [i |-> k + 1, new_line |-> FALSE, block |-> None]

AtNewline(p, k) == [i |-> k + 1, new_line |-> TRUE, block |-> None]

AtOther(p, k) == [i |-> k + 1, new_line |-> FALSE, block |-> None]

ScanStep(p, k, nl) ==
  IF nl
  THEN IF IsOpen(p, k)
       THEN LET j == FindClose(p, k + 2)
            IN IF j # -1 THEN Yielded(p, k, j) ELSE Unclosed(p, k)
       ELSE FreshLineOther(p, k)
  ELSE IF At(p, k) = "\n" THEN AtNewline(p, k)
  ELSE AtOther(p, k)

LoopCond(p, k) == k + 1 < Len(p)

\* The whole constructor: the blocks stored for a patch text.
RECURSIVE RunScan(_, _, _, _)
RunScan(p, k, nl, bs) ==
  IF ~LoopCond(p, k) THEN bs
  ELSE CHOOSE r \in
         { RunScan(p, st.i, st.new_line,
                   IF st.block = None THEN bs ELSE AddBlock(bs, st.block)) :
           st \in {ScanStep(p, k, nl)} } : TRUE

PatchBlocks(p) == RunScan(p, 0, TRUE, <<>>)

(***************************************************************************)
(* PatchBlocks.range_exists: the loop over _blocks with its early return.  *)
(***************************************************************************)
\* Mutants of Nested: a strict upper comparison, and overlap in place of
\* nesting.
Nested_strict(block, start, end) == block[1] <= start /\ end < block[2]

Nested_overlap(block, start, end) == block[1] <= end /\ start <= block[2]

Nested(block, start, end) == block[1] <= start /\ end <= block[2]

RECURSIVE RangeLoop(_, _, _, _)
RangeLoop(bs, n, start, end) ==
  IF n > Len(bs) THEN FALSE
  ELSE IF Nested(bs[n], start, end) THEN TRUE
  ELSE RangeLoop(bs, n + 1, start, end)

range_exists(bs, start, end) == RangeLoop(bs, 1, start, end)

(***************************************************************************)
(* Patch texts: concatenations of at most MaxSegs segments.                *)
(***************************************************************************)
Hdr(a, b, c, d) ==
  <<"@", "@", " ", "-">> \o a \o <<",">> \o b \o <<" ", "+">> \o c
    \o <<",">> \o d \o <<" ", "@", "@">>

H_1_3 == Hdr(<<"1">>, <<"2">>, <<"1">>, <<"3">>)

H_10_500 == Hdr(<<"1", "0">>, <<"2">>, <<"1", "0">>, <<"5", "0", "0">>)

H_10_20 == Hdr(<<"1">>, <<"5">>, <<"1", "0">>, <<"2", "0">>)

H_3_12 == Hdr(<<"3">>, <<"9">>, <<"3">>, <<"1", "2">>)

H_10_3 == Hdr(<<"1", "0">>, <<"3">>, <<"1", "0">>, <<"3">>)

H_0_0 == Hdr(<<"1">>, <<"3">>, <<"0">>, <<"0">>)

\* '@@ -1 +1,2 @@': a header whose old count is left out.
H_short == <<"@", "@", " ", "-", "1", " ", "+", "1", ",", "2", " ", "@", "@">>

HunkHeaders ==
  { [text |-> H_1_3, newStart |-> 1, newCount |-> 3],
    [text |-> H_10_500, newStart |-> 10, newCount |-> 500],
    [text |-> H_10_20, newStart |-> 10, newCount |-> 20],
    [text |-> H_3_12, newStart |-> 3, newCount |-> 12],
    [text |-> H_10_3, newStart |-> 10, newCount |-> 3],
    [text |-> H_0_0, newStart |-> 0, newCount |-> 0] }

Segments ==
  { h.text : h \in HunkHeaders }
    \cup { H_short, <<"@", "@">>, <<"\n">>, <<"x">>,
           <<"\n", ".", ".", ".", "\n">> }

RECURSIVE Concat(_)
Concat(ss) == IF ss = <<>> THEN <<>> ELSE Head(ss) \o Concat(Tail(ss))

Patches == UNION { { Concat(ss) : ss \in [1..n -> Segments] } : n \in 0..MaxSegs }

(***************************************************************************)
(* Dictionaries are functions on their keys; d[k] with k missing raises    *)
(* KeyError.                                                               *)
(***************************************************************************)
Has(d, k) == k \in DOMAIN d

EmptyDict == [k \in {} |-> <<>>]

Put(d, k, v) == [x \in DOMAIN d \cup {k} |-> IF x = k THEN v ELSE d[x]]

(***************************************************************************)
(* main, line 143: the dict comprehension over commit["files"].  A later   *)
(* file of the same name replaces an earlier one.                          *)
(***************************************************************************)
RECURSIVE DictComp(_, _)
DictComp(files, n) ==
  IF n = 0 THEN EmptyDict
  ELSE IF Has(files[n], "patch")
       THEN Put(DictComp(files, n - 1), files[n].filename, PatchBlocks(files[n].patch))
       ELSE DictComp(files, n - 1)

CommitFiles(c) == DictComp(c.files, Len(c.files))

(***************************************************************************)
(* snyk_results: what the generator does when it is resumed with its loops *)
(* at run r, result s, location l (1-based).                               *)
(***************************************************************************)
KeyError == [kind |-> "KeyError"]

StopIteration == [kind |-> "stop"]

\* Lines 122-125: the three lookups of one location, then the yield.
ReadLocation(location) ==
  IF ~Has(location, "physicalLocation") THEN KeyError
  ELSE IF ~Has(location.physicalLocation, "artifactLocation") THEN KeyError
  ELSE IF ~Has(location.physicalLocation.artifactLocation, "uri") THEN KeyError
  ELSE IF ~Has(location.physicalLocation, "region") THEN KeyError
  ELSE IF ~Has(location.physicalLocation.region, "startLine") THEN KeyError
  ELSE IF ~Has(location.physicalLocation.region, "endLine") THEN KeyError
  ELSE [kind |-> "yield",
        filename |-> location.physicalLocation.artifactLocation.uri,
        start |-> location.physicalLocation.region.startLine,
        end |-> location.physicalLocation.region.endLine]

\* Mutant of HasRuns: snyk_report.get("runs", []) in place of
\* snyk_report["runs"].
HasRuns_default(rep) == TRUE

HasRuns(rep) == Has(rep, "runs")

RunsOf(rep) == IF Has(rep, "runs") THEN rep.runs ELSE <<>>

RECURSIVE Advance(_, _, _, _)
Advance(rep, r, s, l) ==
  IF ~HasRuns(rep) THEN [at |-> <<r, s, l>>] @@ KeyError
  ELSE IF r > Len(RunsOf(rep)) THEN [at |-> <<r, s, l>>] @@ StopIteration
  ELSE IF ~Has(RunsOf(rep)[r], "results") THEN [at |-> <<r, s, l>>] @@ KeyError
  ELSE IF s > Len(RunsOf(rep)[r].results) THEN Advance(rep, r + 1, 1, 1)
  ELSE IF ~Has(RunsOf(rep)[r].results[s], "locations") THEN [at |-> <<r, s, l>>] @@ KeyError
  ELSE IF l > Len(RunsOf(rep)[r].results[s].locations) THEN Advance(rep, r, s + 1, 1)
  ELSE [at |-> <<r, s, l + 1>>] @@ ReadLocation(RunsOf(rep)[r].results[s].locations[l])

\* A report with a key missing anywhere in runs -> results -> locations.
RECURSIVE AllOK(_, _, _)
AllOK(rep, r, s) ==
  IF ~Has(rep, "runs") THEN FALSE
  ELSE IF r > Len(rep.runs) THEN TRUE
  ELSE IF ~Has(rep.runs[r], "results") THEN FALSE
  ELSE IF s > Len(rep.runs[r].results) THEN AllOK(rep, r + 1, 1)
  ELSE IF ~Has(rep.runs[r].results[s], "locations") THEN FALSE
  ELSE /\ \A l \in 1..Len(rep.runs[r].results[s].locations) :
            ReadLocation(rep.runs[r].results[s].locations[l]).kind = "yield"
       /\ AllOK(rep, r, s + 1)

WellFormed(rep) == AllOK(rep, 1, 1)

\* Mutant of Resume: the findings are collected into a list before the loop
\* of main starts, so every lookup of the report happens first.
Resume_eager(rep, c) ==
  IF WellFormed(rep) THEN Advance(rep, c[1], c[2], c[3])
  ELSE [at |-> c] @@ KeyError

\* next() on the generator.
Resume(rep, c) == Advance(rep, c[1], c[2], c[3])

(***************************************************************************)
(* main, lines 153-159: the body of the for loop for one finding.          *)
(***************************************************************************)
\* Mutant of Accepts: a finding on a file the commit does not have is
\* passed over.
Accepts_skip_unknown(cf, f) ==
  IF Has(cf, f.filename) THEN range_exists(cf[f.filename], f.start, f.end) ELSE TRUE

\* Lines 154-158: TRUE when the loop goes on, FALSE when it returns False.
Accepts(cf, f) ==
  IF Has(cf, f.filename) THEN range_exists(cf[f.filename], f.start, f.end) ELSE FALSE

\* Mutant of AfterFinding: the loop returns at its first finding either way.
AfterFinding_first(ok) == IF ok THEN "True" ELSE "False"

\* The result of main after one finding: "none" while the loop goes on.
AfterFinding(ok) == IF ok THEN "none" ELSE "False"

\* The whole loop from cursor c: "True", "False" or "KeyError".
RECURSIVE RunMain(_, _, _)
RunMain(cf, rep, c) ==
  CHOOSE out \in
    { IF g.kind = "KeyError" THEN "KeyError"
      ELSE IF g.kind = "stop" THEN "True"
      ELSE IF AfterFinding(Accepts(cf, g)) = "none" THEN RunMain(cf, rep, g.at)
      ELSE AfterFinding(Accepts(cf, g)) : g \in {Resume(rep, c)} } : TRUE

Verify(c, rep) == RunMain(CommitFiles(c), rep, <<1, 1, 1>>)

(***************************************************************************)
(* Inputs of main: commits, and reports of at most MaxNodes runs, results  *)
(* and locations altogether.                                               *)
(***************************************************************************)
P_10_20 == H_10_20

P_two == H_1_3 \o <<"\n", ".", ".", ".", "\n">> \o H_10_500

File(name, p) == [filename |-> name, patch |-> p]

NoPatchFile(name) == [filename |-> name, status |-> "renamed"]

Commits ==
  { [files |-> <<>>],
    [files |-> <<File("a", P_10_20)>>],
    [files |-> <<File("a", P_two), NoPatchFile("b")>>],
    [files |-> <<File("a", P_10_20), File("a", P_two)>>],
    [files |-> <<NoPatchFile("a"), File("b", P_10_20)>>],
    [files |-> <<File("a", P_two), NoPatchFile("a")>>] }

Loc(uri, start, end) ==
  [physicalLocation |->
     [artifactLocation |-> [uri |-> uri],
      region |-> [startLine |-> start, endLine |-> end]]]

GoodLocations == { Loc("a", 10, 20), Loc("a", 2, 3), Loc("b", 10, 20) }

\* Locations with one required key missing.
BadLocations ==
  { [message |-> "m"],
    [physicalLocation |-> [region |-> [startLine |-> 10, endLine |-> 20]]],
    [physicalLocation |->
       [artifactLocation |-> [uriBaseId |-> "root"],
        region |-> [startLine |-> 10, endLine |-> 20]]],
    [physicalLocation |-> [artifactLocation |-> [uri |-> "a"]]],
    [physicalLocation |->
       [artifactLocation |-> [uri |-> "a"], region |-> [endLine |-> 20]]],
    [physicalLocation |->
       [artifactLocation |-> [uri |-> "a"], region |-> [startLine |-> 10]]] }

Locations == GoodLocations \cup BadLocations

\* A result without "locations", a run without "results", a report
\* without "runs".
BadResult == [ruleId |-> "r"]

BadRun == [tool |-> "snyk"]

BadReport == [version |-> "2.1.0"]

\* The reports that have one node more than rep, added at its end.
AddRun(rep) ==
  IF ~Has(rep, "runs") THEN {}
  ELSE { [runs |-> Append(rep.runs, run)] : run \in {BadRun, [results |-> <<>>]} }

LastRun(rep) == rep.runs[Len(rep.runs)]

AddResult(rep) ==
  IF ~Has(rep, "runs") \/ rep.runs = <<>> THEN {}
  ELSE IF ~Has(LastRun(rep), "results") THEN {}
  ELSE { [runs |-> [rep.runs EXCEPT ![Len(rep.runs)] =
                      [results |-> Append(LastRun(rep).results, res)]]] :
         res \in {BadResult, [locations |-> <<>>]} }

LastResult(rep) == LastRun(rep).results[Len(LastRun(rep).results)]

AddLocation(rep) ==
  IF ~Has(rep, "runs") \/ rep.runs = <<>> THEN {}
  ELSE IF ~Has(LastRun(rep), "results") THEN {}
  ELSE IF LastRun(rep).results = <<>> THEN {}
  ELSE IF ~Has(LastResult(rep), "locations") THEN {}
  ELSE { [runs |-> [rep.runs EXCEPT ![Len(rep.runs)] =
                      [results |-> [LastRun(rep).results
                         EXCEPT ![Len(LastRun(rep).results)] =
                           [locations |-> Append(LastResult(rep).locations, loc)]]]]] :
         loc \in Locations }

RECURSIVE ReportsUpTo(_)
ReportsUpTo(n) ==
  IF n = 0 THEN { BadReport, [runs |-> <<>>] }
  ELSE LET R == ReportsUpTo(n - 1)
       IN R \cup UNION { AddRun(rep) \cup AddResult(rep) \cup AddLocation(rep) : rep \in R }

Reports == ReportsUpTo(MaxNodes)

(***************************************************************************)
(* main as a state machine: the fetch and line 143, then one action per    *)
(* way an iteration of the loop of lines 153-159 can go.                   *)
(***************************************************************************)
MainIdle ==
  /\ commit = [files |-> <<>>]
  /\ report = [runs |-> <<>>]
  /\ commit_files = EmptyDict
  /\ cur = <<1, 1, 1>>
  /\ result = "off"
  /\ examined = <<>>

ScanIdle ==
  /\ patch = <<>>
  /\ pc = "off"
  /\ i = 0
  /\ new_line = TRUE
  /\ blocks = <<>>
  /\ emitted = <<>>
  /\ prev_i = 0
  /\ iters = 0

InitMain ==
  /\ ScanIdle
  /\ commit = [files |-> <<>>]
  /\ report = [runs |-> <<>>]
  /\ commit_files = EmptyDict
  /\ cur = <<1, 1, 1>>
  /\ result = "start"
  /\ examined = <<>>

\* Lines 139-145: the commit and the report are fetched, commit_files is
\* built.
Fetch ==
  /\ result = "start"
  /\ commit' \in Commits
  /\ report' \in Reports
  /\ commit_files' = CommitFiles(commit')
  /\ result' = "none"
  /\ UNCHANGED <<cur, examined>>
  /\ UNCHANGED scanvars

Looping == result = "none"

\* A lookup of the report fails inside the generator.
Abort ==
  /\ Looping
  /\ \E g \in {Resume(report, cur)} :
       /\ g.kind = "KeyError"
       /\ result' = "KeyError"
       /\ cur' = g.at
  /\ UNCHANGED <<commit, report, commit_files, examined>>
  /\ UNCHANGED scanvars

\* Line 158: the file of the finding is not in commit_files.
ReturnFalseNoFile ==
  /\ Looping
  /\ \E g \in {Resume(report, cur)} :
       /\ g.kind = "yield"
       /\ ~Has(commit_files, g.filename)
       /\ result' = AfterFinding(Accepts(commit_files, g))
       /\ cur' = g.at
       /\ examined' = Append(examined, <<g.filename, <<g.start, g.end>>>>)
  /\ UNCHANGED <<commit, report, commit_files>>
  /\ UNCHANGED scanvars

\* Line 156: range_exists rejects the region.
ReturnFalseRange ==
  /\ Looping
  /\ \E g \in {Resume(report, cur)} :
       /\ g.kind = "yield"
       /\ Has(commit_files, g.filename)
       /\ ~Accepts(commit_files, g)
       /\ result' = AfterFinding(Accepts(commit_files, g))
       /\ cur' = g.at
       /\ examined' = Append(examined, <<g.filename, <<g.start, g.end>>>>)
  /\ UNCHANGED <<commit, report, commit_files>>
  /\ UNCHANGED scanvars

\* The finding passes and the loop goes on.
NextFinding ==
  /\ Looping
  /\ \E g \in {Resume(report, cur)} :
       /\ g.kind = "yield"
       /\ Has(commit_files, g.filename)
       /\ Accepts(commit_files, g)
       /\ result' = AfterFinding(Accepts(commit_files, g))
       /\ cur' = g.at
       /\ examined' = Append(examined, <<g.filename, <<g.start, g.end>>>>)
  /\ UNCHANGED <<commit, report, commit_files>>
  /\ UNCHANGED scanvars

\* Line 159: the generator is exhausted.
ReturnTrue ==
  /\ Looping
  /\ \E g \in {Resume(report, cur)} :
       /\ g.kind = "stop"
       /\ result' = "True"
       /\ cur' = g.at
  /\ UNCHANGED <<commit, report, commit_files, examined>>
  /\ UNCHANGED scanvars

NextMain ==
  Fetch \/ Abort \/ ReturnFalseNoFile \/ ReturnFalseRange \/ NextFinding \/ ReturnTrue

SpecMain == InitMain /\ [][NextMain]_vars

(***************************************************************************)
(* The scan as a state machine: PatchBlocks(patch) one loop iteration at a *)
(* time.  emitted, prev_i and iters record the run: the blocks yielded so  *)
(* far, the cursor before the last iteration and the iteration count.      *)
(***************************************************************************)
Init ==
  /\ patch = <<>>
  /\ pc = "new"
  /\ i = 0
  /\ new_line = TRUE
  /\ blocks = <<>>
  /\ emitted = <<>>
  /\ prev_i = 0
  /\ iters = 0
  /\ MainIdle

\* PatchBlocks(patch) is called: _blocks = [], and the generator starts with
\* i = 0 and new_line = True.
Construct ==
  /\ pc = "new"
  /\ patch' \in Patches
  /\ pc' = "scan"
  /\ i' = 0
  /\ new_line' = TRUE
  /\ blocks' = <<>>
  /\ UNCHANGED <<emitted, prev_i, iters>>
  /\ UNCHANGED mainvars

\* One iteration: st is the outcome of ScanStep.
Iterate(step) ==
  \E st \in {step} :
    /\ i' = st.i
    /\ new_line' = st.new_line
    /\ blocks' = IF st.block = None THEN blocks ELSE AddBlock(blocks, st.block)
    /\ emitted' = IF st.block = None THEN emitted
                  ELSE Append(emitted, [from |-> i, to |-> st.i])
    /\ prev_i' = i
    /\ iters' = iters + 1
    /\ UNCHANGED <<patch, pc>>
    /\ UNCHANGED mainvars

Scanning == pc = "scan" /\ LoopCond(patch, i)

YieldBlock ==
  /\ Scanning /\ new_line /\ IsOpen(patch, i) /\ FindClose(patch, i + 2) # -1
  /\ Iterate(ScanStep(patch, i, new_line))

UnclosedOpen ==
  /\ Scanning /\ new_line /\ IsOpen(patch, i) /\ FindClose(patch, i + 2) = -1
  /\ Iterate(ScanStep(patch, i, new_line))

SkipFreshLine ==
  /\ Scanning /\ new_line /\ ~IsOpen(patch, i)
  /\ Iterate(ScanStep(patch, i, new_line))

SeeNewline ==
  /\ Scanning /\ ~new_line /\ At(patch, i) = "\n"
  /\ Iterate(ScanStep(patch, i, new_line))

SkipChar ==
  /\ Scanning /\ ~new_line /\ At(patch, i) # "\n"
  /\ Iterate(ScanStep(patch, i, new_line))

ScanEnd ==
  /\ pc = "scan" /\ ~LoopCond(patch, i)
  /\ pc' = "done"
  /\ UNCHANGED <<patch, i, new_line, blocks, emitted, prev_i, iters>>
  /\ UNCHANGED mainvars

Next == Construct \/ YieldBlock \/ UnclosedOpen \/ SkipFreshLine \/ SeeNewline \/ SkipChar \/ ScanEnd

Spec == Init /\ [][Next]_vars

FairSpec == Spec /\ WF_vars(Next)

(***************************************************************************)
(* Properties of the scan and of range_exists.                             *)
(***************************************************************************)
Done == pc = "done"

OccursAt(s, p, t) == p + Len(t) <= Len(s) /\ SubSeq(s, p + 1, p + Len(t)) = t

LineStart(s, p) == p = 0 \/ s[p] = "\n"

QueryLines == {0, 1, 2, 3, 4, 5, 10, 11, 12, 15, 20, 21, 500, 501}

SomeRangeNests(bs, s, e) == \E k \in 1..Len(bs) : bs[k][1] <= s /\ e <= bs[k][2]

C2Patch == H_1_3 \o <<"\n", ".", ".", ".", "\n">> \o H_10_500

\* C2 as stated: for the patch '@@ -1,2 +1,3 @@\n...\n@@ -10,2 +10,500 @@'
\* the stored ranges are (1,3) and (10,500), the query (10,500) is accepted
\* and the query (2,3) is rejected.
C2_AsStated ==
  (Done /\ patch = C2Patch) =>
    /\ blocks = << <<1, 3>>, <<10, 500>> >>
    /\ range_exists(blocks, 10, 500)
    /\ ~range_exists(blocks, 2, 3)

\* C2 amended: for that patch the stored ranges are (1,3) and (10,500), the
\* query (10,500) is accepted and the query (2,3) is accepted too, being
\* nested in (1,3); the query (2,4) is the one that is rejected.
C2_TwoHunks ==
  (Done /\ patch = C2Patch) =>
    /\ blocks = << <<1, 3>>, <<10, 500>> >>
    /\ range_exists(blocks, 10, 500)
    /\ range_exists(blocks, 2, 3)
    /\ ~range_exists(blocks, 2, 4)

C2_Witness == Done /\ patch = C2Patch /\ Len(blocks) = 2

\* The positions of the patch where a hunk header of the grammar begins at
\* the start of the text or right after a newline.
LineStartHeaders ==
  { p \in 0..(Len(patch) - 1) :
      LineStart(patch, p) /\ \E h \in HunkHeaders : OccursAt(patch, p, h.text) }

\* C3: every hunk header that begins at the start of the text or right
\* after a newline is yielded by the scan and contributes one range,
\* whatever precedes it.
C3_EveryLineStartHeaderFound ==
  Done =>
    /\ \A p \in LineStartHeaders :
         \E k \in 1..Len(emitted) :
           /\ emitted[k].from = p
           /\ \E h \in HunkHeaders : Slice(patch, p, emitted[k].to) = h.text
    /\ Len(blocks) = Cardinality(LineStartHeaders)

\* C4: every stored range has start <= end, start >= 1 and end >= 1.
C4_RangesWellFormed ==
  \A k \in 1..Len(blocks) :
    blocks[k][1] <= blocks[k][2] /\ blocks[k][1] >= 1 /\ blocks[k][2] >= 1

\* The ranges the yielded blocks stand for, read off the table of headers:
\* a block that is a header gives (newStart, newCount), any other block
\* gives nothing.
RECURSIVE LiteralRanges(_, _)
LiteralRanges(p, es) ==
  IF es = <<>> THEN <<>>
  ELSE LET e == es[Len(es)]
           hs == { h \in HunkHeaders : Slice(p, e.from, e.to) = h.text }
           rest == LiteralRanges(p, SubSeq(es, 1, Len(es) - 1))
       IN IF hs = {} THEN rest
          ELSE LET h == CHOOSE x \in hs : TRUE
               IN Append(rest, <<h.newStart, h.newCount>>)

\* C6: the stored ranges are the pairs (newStart, newCount) of the
\* recognised headers, end being newCount itself, in order of appearance;
\* a '@@...@@' region outside the grammar adds nothing and the scan goes on;
\* '@@ -1,5 +10,20 @@' alone gives (10,20).
C6_LiteralPairs ==
  /\ blocks = LiteralRanges(patch, emitted)
  /\ (Done /\ patch = H_10_20) => blocks = << <<10, 20>> >>

C6_Witness ==
  /\ Done
  /\ patch = H_short \o <<"\n">> \o H_10_20
  /\ Len(emitted) = 2
  /\ blocks = << <<10, 20>> >>

\* C7: range_exists(start, end) is true exactly when one stored range r has
\* r.start <= start and end <= r.end; partial overlap and cover by a union
\* of two ranges are rejected, the empty index rejects everything, and
\* every stored range is accepted as a query.
C7_RangeExistsIsNesting ==
  /\ Done => \A s \in QueryLines, e \in QueryLines :
               range_exists(blocks, s, e) <=> SomeRangeNests(blocks, s, e)
  /\ blocks = << <<10, 20>> >> => ~range_exists(blocks, 5, 15)
  /\ blocks = << <<1, 3>>, <<3, 12>> >> => ~range_exists(blocks, 2, 11)
  /\ blocks = <<>> => \A s \in QueryLines, e \in QueryLines : ~range_exists(blocks, s, e)
  /\ \A k \in 1..Len(blocks) : range_exists(blocks, blocks[k][1], blocks[k][2])

C7_Witness ==
  /\ Done
  /\ blocks = << <<1, 3>>, <<3, 12>> >>
  /\ range_exists(blocks, 2, 3) /\ range_exists(blocks, 3, 11)
  /\ ~range_exists(blocks, 2, 11)

IsIteration == iters' = iters + 1

OpenWithoutClose ==
  /\ Scanning /\ new_line /\ IsOpen(patch, i)
  /\ \A j \in (i + 2)..(Len(patch) - 2) : ~IsOpen(patch, j)

\* C10: the scan terminates; the cursor never decreases and is strictly
\* larger after any two consecutive iterations; an opening '@@' on a fresh
\* line with no closing '@@' emits no block, and the cursor moves past it in
\* the next iteration.
C10_ScanTerminates ==
  /\ <>Done
  /\ [][IsIteration =>
          /\ i' >= i
          /\ (iters > 0 /\ i = prev_i) => i' > i
          /\ OpenWithoutClose => (emitted' = emitted /\ blocks' = blocks /\ i' = i)
          /\ iters' <= 2 * Len(patch)]_vars
  /\ [](Done => i + 1 >= Len(patch))

C10_Witness ==
  /\ Done
  /\ patch = <<"@", "@", "x", "x">>
  /\ emitted = <<>>
  /\ i = 3
  /\ iters = 4

(***************************************************************************)
(* Properties of the verification run.                                     *)
(***************************************************************************)
Final == result \in {"True", "False", "KeyError"}

\* The files of a commit that carry a patch, by name; the last one counts.
PatchedAt(c, name) ==
  { n \in 1..Len(c.files) : "patch" \in DOMAIN c.files[n] /\ c.files[n].filename = name }

PatchedNames(c) ==
  { c.files[n].filename : n \in { m \in 1..Len(c.files) : "patch" \in DOMAIN c.files[m] } }

LastPatched(c, name) ==
  c.files[CHOOSE n \in PatchedAt(c, name) : \A m \in PatchedAt(c, name) : m <= n]

\* A finding <<filename, <<start, end>>>> is explained by the commit.
Explained(c, f) ==
  /\ f[1] \in PatchedNames(c)
  /\ SomeRangeNests(PatchBlocks(LastPatched(c, f[1]).patch), f[2][1], f[2][2])

FindingOf(loc) ==
  <<loc.physicalLocation.artifactLocation.uri,
    <<loc.physicalLocation.region.startLine, loc.physicalLocation.region.endLine>>>>

\* The findings of a well-formed report, as a set of positions.
Positions(rep) ==
  { pos \in UNION { UNION { { <<r, s, l>> : l \in 1..Len(rep.runs[r].results[s].locations) } :
                            s \in 1..Len(rep.runs[r].results) } :
                    r \in 1..Len(rep.runs) } : TRUE }

LocAt(rep, pos) == rep.runs[pos[1]].results[pos[2]].locations[pos[3]]

\* C1: on a well-formed report main returns True exactly when every finding
\* has its file among the patched files of the commit and its range nested
\* in a stored range of that file; the keys of commit_files are the names of
\* the files that carry a patch; no finding gives True.
C1_TrueIffAllExplained ==
  (Final /\ WellFormed(report)) =>
    /\ result \in {"True", "False"}
    /\ result = "True" <=>
         \A pos \in Positions(report) : Explained(commit, FindingOf(LocAt(report, pos)))
    /\ DOMAIN commit_files = PatchedNames(commit)
    /\ Positions(report) = {} => result = "True"

C1_Witness ==
  /\ result = "False"
  /\ WellFormed(report)
  /\ commit = [files |-> <<File("a", P_two), NoPatchFile("b")>>]
  /\ examined = << <<"a", <<10, 20>>>>, <<"b", <<10, 20>>>> >>

\* The findings met in report order before the first missing key.
RECURSIVE GoodPrefixFrom(_, _, _, _)
GoodPrefixFrom(rep, r, s, l) ==
  IF ~Has(rep, "runs") THEN <<>>
  ELSE IF r > Len(rep.runs) THEN <<>>
  ELSE IF ~Has(rep.runs[r], "results") THEN <<>>
  ELSE IF s > Len(rep.runs[r].results) THEN GoodPrefixFrom(rep, r + 1, 1, 1)
  ELSE IF ~Has(rep.runs[r].results[s], "locations") THEN <<>>
  ELSE IF l > Len(rep.runs[r].results[s].locations) THEN GoodPrefixFrom(rep, r, s + 1, 1)
  ELSE IF rep.runs[r].results[s].locations[l] \in BadLocations THEN <<>>
  ELSE <<FindingOf(rep.runs[r].results[s].locations[l])>>
         \o GoodPrefixFrom(rep, r, s, l + 1)

GoodPrefix(rep) == GoodPrefixFrom(rep, 1, 1, 1)

SomeFailsBeforeMissingKey ==
  \E k \in 1..Len(GoodPrefix(report)) : ~Explained(commit, GoodPrefix(report)[k])

\* C5 as stated: a report with a required key missing always aborts with
\* the lookup failure.
C5_AsStated == (Final /\ ~WellFormed(report)) => result = "KeyError"

\* C5 amended: a report with a required key missing never gives True; it
\* aborts with the lookup failure unless a finding that comes before the
\* first missing key in report order fails the check, and then main returns
\* False; a report without "runs" always aborts.
C5_MissingKeyNeverTrue ==
  (Final /\ ~WellFormed(report)) =>
    /\ result # "True"
    /\ result = "False" <=> SomeFailsBeforeMissingKey
    /\ ~Has(report, "runs") => result = "KeyError"

C5_Witness ==
  /\ result = "KeyError"
  /\ Has(report, "runs")
  /\ examined # <<>>

SwapSeq(q, a, b) == [q EXCEPT ![a] = q[b], ![b] = q[a]]

RunsSwapped(rep) ==
  { [runs |-> SwapSeq(rep.runs, a, b)] : a, b \in 1..Len(rep.runs) }

ResultsSwapped(rep) ==
  UNION { { [runs |-> [rep.runs EXCEPT ![r] = [results |-> SwapSeq(@.results, a, b)]]] :
            a, b \in 1..Len(rep.runs[r].results) } : r \in 1..Len(rep.runs) }

LocationsSwapped(rep) ==
  UNION { { [runs |-> [rep.runs EXCEPT ![pos[1]] =
                         [results |-> [@.results EXCEPT ![pos[2]] =
                            [locations |-> SwapSeq(@.locations, pos[3], b)]]]]] :
            b \in 1..Len(rep.runs[pos[1]].results[pos[2]].locations) } :
          pos \in Positions(rep) }

Reverse(q) == [k \in 1..Len(q) |-> q[Len(q) + 1 - k]]

RECURSIVE Flat(_, _, _)
Flat(rep, r, s) ==
  IF r > Len(rep.runs) THEN <<>>
  ELSE IF s > Len(rep.runs[r].results) THEN Flat(rep, r + 1, 1)
  ELSE rep.runs[r].results[s].locations \o Flat(rep, r, s + 1)

\* The same findings in one result of one run, in reverse order.
Reversed(rep) == [runs |-> <<[results |-> <<[locations |-> Reverse(Flat(rep, 1, 1))]>>]>>]

\* C8: for a well-formed report the result is the same after any two runs,
\* any two results of a run or any two locations of a result change places,
\* and after the findings are put in reverse order.
C8_OrderIrrelevant ==
  (Final /\ WellFormed(report)) =>
    /\ \A rep \in RunsSwapped(report) \cup ResultsSwapped(report) \cup LocationsSwapped(report) :
         Verify(commit, rep) = result
    /\ Verify(commit, Reversed(report)) = result

C8_Witness ==
  /\ result = "False"
  /\ WellFormed(report)
  /\ Len(examined) = 2
  /\ Len(report.runs) = 1 /\ Len(report.runs[1].results) = 2

\* The part of the report up to run r, result s, with its locations up to
\* l - 1: what the generator has read when its cursor is <<r, s, l>>.
ReadSoFar(rep, c) ==
  [runs |-> [r \in 1..c[1] |->
     [results |-> [s \in 1..(IF r < c[1] THEN Len(rep.runs[r].results) ELSE c[2]) |->
        [locations |-> IF r < c[1] \/ s < c[2]
                       THEN rep.runs[r].results[s].locations
                       ELSE SubSeq(rep.runs[r].results[s].locations, 1, c[3] - 1)]]]]]

\* C9: main returns False at the first finding, in report order, that is not
\* explained: the findings examined are that finding and the explained ones
\* before it, the generator stands right after it, and nothing after it has
\* been read, so whatever follows it, a missing key included, the result is
\* False.
C9_FirstFailureStops ==
  /\ result = "False" =>
       /\ examined # <<>>
       /\ examined = SubSeq(GoodPrefix(report), 1, Len(examined))
       /\ ~Explained(commit, examined[Len(examined)])
       /\ \A k \in 1..(Len(examined) - 1) : Explained(commit, examined[k])
       /\ WellFormed(ReadSoFar(report, cur))
       /\ Cardinality(Positions(ReadSoFar(report, cur))) = Len(examined)
       /\ FindingOf(LocAt(report, <<cur[1], cur[2], cur[3] - 1>>)) = examined[Len(examined)]
  /\ (Final /\ SomeFailsBeforeMissingKey) => result = "False"

C9_Witness ==
  /\ result = "False"
  /\ ~WellFormed(report)
  /\ Len(examined) = 2

====
